---- MODULE Spec2Model ----
(***************************************************************************)
(* Mockup compositing service: the /api/composite handlers (app.py,        *)
(* app_fast.py) and the batch executors they drive                         *)
(* (FastImageCompositor.composite_batch, GPUImageCompositor.               *)
(* composite_batch_gpu).  Images are abstracted to their identity: a       *)
(* mockup is named by its variant id, a composite by the pair              *)
(* <<mockup id, design-area id>> it was made from, an uploaded object by   *)
(* the composite and the variant whose name keys it.                       *)
(***************************************************************************)
EXTENDS Integers, Sequences, FiniteSets, TLC

\* ------------------------------------------------------------------ bounds
MaxUnits == 2          \* template variants / longest list given to a batch
MaxSources == 2        \* longest "sources" list of a request
MaxWorkers == 2        \* largest max_workers a compositor is built with
MaxDim == 3            \* largest width/height of a design or design area

\* ------------------------------------------------------- program constants
UploadWorkers == 8        \* ThreadPoolExecutor(max_workers=8) of the upload pool
FastHandlerWorkers == 8   \* fast_compositor = FastImageCompositor(max_workers=8)

VariantIds == 1..MaxUnits

\* An id a request may list that no variant of the template has.
UnknownId == 0

\* What data['variantIds'] may list: ids of the template and, next to at
\* most one of them, an unknown id.
RequestedIds ==
    (SUBSET VariantIds)
    \cup { {v, UnknownId} : v \in VariantIds } \cup {{UnknownId}}

\* What is wrong with the unit of a variant, if anything: its mockup URL is
\* unreachable, its design area makes composite/encode raise, or its upload
\* to object storage fails.
Faults == {"none", "fetch", "geom", "upload"}

\* A source of a request: source.get('type', 'url') and source.get('imageUrl');
\* "ok"/"bad" say whether the design URL can be fetched and decoded.
SourceKinds ==
    { [type |-> "url", imageUrl |-> "ok"],
      [type |-> "url", imageUrl |-> "bad"],
      [type |-> "url", imageUrl |-> "empty"],
      [type |-> "file", imageUrl |-> "ok"] }

RequiredFields == {"templateId", "sources", "variantIds"}

VARIABLES
    entry,          \* "seq" app.py, "fast" app_fast.py, "batch" composite_batch, "gpu" composite_batch_gpu
    pc,             \* position of the main thread
    fields,         \* keys present in request.json
    sources,        \* data['sources']
    selected,       \* selected_variants, as the sequence of their ids
    variantIds,     \* data['variantIds'], as the set of ids it lists
    fault,          \* environment: variant id -> Faults
    maxWorkers,     \* self.max_workers of the compositor
    optConcurrency, \* options['concurrency'] as supplied by the caller
    srcIdx,         \* idx of the sources loop (1-based)
    vIdx,           \* position in selected_variants (sequential loops)
    results,        \* the handler's results list
    resp,           \* the HTTP response, or the outcome of a direct batch call
    mockupUrls,     \* composite_batch argument mockup_urls (ids)
    designAreas,    \* composite_batch argument design_areas (ids)
    stage,          \* "none", "fetch", "composite", "upload": the live thread pool
    task,           \* future k of the live pool: state
    val,            \* future k of the live pool: result value
    mapPos,         \* next future the executor.map iterator yields
    raised,         \* the map iterator has re-raised a task's exception
    doneOrder,      \* completion order of the live pool's tasks
    outOfOrder,     \* some task of this batch finished before an earlier one
    mockups,        \* list returned by load_images_parallel
    composited,     \* list returned by composite_batch
    batch,          \* latest batch call: "idle", "running", "returned", "raised", "aborted" (no design)
    unit,           \* life cycle of unit k of the latest batch
    nLookup,        \* templates_collection.find_one calls
    designFetch,    \* source index -> number of design fetches
    mockupFetch,    \* variant id -> number of mockup fetches of the current source
    nComposite,     \* composite operations performed
    uploads,        \* objects put to storage, in order
    designSize,     \* <<width, height>> of the decoded design
    decodedAlpha,   \* alpha of the design as decoded (8 bit)
    tvAlias,        \* TF.resize returns its input when the size already matches
    heap,           \* pixel buffer -> its alpha now (-1: not allocated)
    upc,            \* unit k: next step of its transform pipeline
    ref,            \* unit k: the buffer its resized_overlay names
    rot,            \* unit k: rotation of its design area (degrees)
    opa,            \* unit k: opacity of its design area (percent)
    outA,           \* unit k: overlay alpha that was blended into its output
    written,        \* unit k: the pixel buffers it has written to
    ipc,            \* single-item composite: next step of the call
    mockup,         \* single-item composite: the decoded mockup (base raster)
    area,           \* single-item composite: design_area as read by the call
    center,         \* single-item composite: options.get('centerDesign', False)
    maintainAspect, \* single-item composite: options['maintainAspect'] as supplied
    overlay,        \* single-item composite: resized_overlay, [size, a]
    at,             \* single-item composite: where the overlay was placed
    out,            \* single-item composite: pixels of result
    steps,          \* single-item composite: the steps executed, in order
    outcome,        \* single-item composite: "none", "bytes" or the exception raised
    now,            \* time.time() in whole milliseconds
    variantNames,   \* unit k: variant['name'], a list of characters
    upos,           \* unit k: position of its upload (upload_single)
    fileName,       \* unit k: file_name
    manager,        \* unit k: the manager get_s3_manager returned to it
    s3_manager,     \* s3_utils.s3_manager: 0 is None, else the instance
    db_manager,     \* db_utils.db_manager: 0 is None, else the instance
    constructed,    \* S3Manager() and DatabaseManager() constructions so far
    puts            \* put_object calls, in order: <<key, unit>>

hvars == <<entry, pc, fields, sources, selected, variantIds, fault, maxWorkers, optConcurrency,
           srcIdx, vIdx, results, resp>>
bvars == <<mockupUrls, designAreas, stage, task, val, mapPos, raised, doneOrder,
           outOfOrder, mockups, composited, batch, unit>>
cvars == <<nLookup, designFetch, mockupFetch, nComposite, uploads>>
ivars == <<ipc, mockup, area, center, maintainAspect, overlay, at, out, steps,
           outcome>>
uvars == <<now, variantNames, upos, fileName, manager, s3_manager, db_manager,
           constructed, puts>>
ovars == <<designSize, decodedAlpha, tvAlias, heap, upc, ref, rot, opa, outA,
           written, ivars, uvars>>
vars == <<hvars, bvars, cvars, ovars>>

\* ----------------------------------------------------------------- helpers
Min(a, b) == IF a <= b THEN a ELSE b

\* Sequences of length at most n over S.
SeqsUpTo(S, n) == UNION { [1..k -> S] : k \in 0..n }

\* The ids 1..n as a list.
Iota(n) == [k \in 1..n |-> k]

NoTasks == [k \in 1..0 |-> "none"]

Units == 1..MaxUnits
SourceIdx == 1..MaxSources

\* ------------------------------------------------------------ result entries
\* The dict appended for a unit that was composited and uploaded.
SuccessEntry(v, idx, url) ==
    [variantId |-> v, variantName |-> v, sourceIndex |-> idx - 1,
     imageUrl |-> url, success |-> TRUE]

\* Deviation used to test a property: the failure entry also carries an image URL.
FailureEntryWithUrl(v, idx) ==
    [variantId |-> v, variantName |-> v, sourceIndex |-> idx - 1,
     error |-> "error", imageUrl |-> <<v, v, v>>, success |-> FALSE]

\* The dict appended for a unit whose processing raised.
FailureEntry(v, idx) ==
    [variantId |-> v, variantName |-> v, sourceIndex |-> idx - 1,
     error |-> "error", success |-> FALSE]

\* len([r for r in results if r['success']])
Successful(rs) == Cardinality({ k \in 1..Len(rs) : rs[k].success })

\* jsonify({'success': True, 'data': results, 'total': ..., 'successful': ...})
OkResponse(rs) ==
    [status |-> 200, success |-> TRUE, data |-> rs,
     total |-> Len(rs), successful |-> Successful(rs)]

ErrorResponse(code) == [status |-> code, success |-> FALSE]

\* Deviation used to test a property: variantIds is left out of the required fields.
MissingFieldUnchecked(f) == \E x \in {"templateId", "sources"} : x \notin f

\* for field in required_fields: if field not in data: return ... 400
MissingField(f) == \E x \in RequiredFields : x \notin f

\* [v for v in template['variants'] if str(v['_id']) in variant_ids]:
\* the template's variants, in template order, whose id is requested.
SelectVariants(ids) == SelectSeq(Iota(MaxUnits), LAMBDA v : v \in ids)

\* The object put to storage for composite c under the name of variant v.
UploadedObject(c, v) == <<c[1], c[2], v>>

\* ------------------------------------------------------------- thread pools
\* max_workers of the pool that runs stage st.
PoolSize(st) == IF st = "upload" THEN UploadWorkers ELSE maxWorkers

Running == { k \in DOMAIN task : task[k] = "running" }

\* Deviation used to test a property: one thread per task, whatever max_workers is.
WorkerFreeAlways(st) == TRUE

\* A ThreadPoolExecutor runs at most max_workers tasks at a time.
WorkerFree(st) == Cardinality(Running) < PoolSize(st)

\* Deviation used to test a property: results gathered as the tasks complete (as_completed).
MapResultsAsCompleted(v, n, order) == [k \in 1..n |-> v[order[k]]]

\* list(executor.map(fn, args)): the futures' results in submission order.
MapResults(v, n, order) == [k \in 1..n |-> v[k]]

\* Futures not yet started are cancelled when the map iterator is abandoned.
CancelPending(t, from) ==
    [k \in DOMAIN t |-> IF k > from /\ t[k] = "pending" THEN "cancelled" ELSE t[k]]

Submitted(n) == [k \in 1..n |-> "pending"]
NoValues(n) == [k \in 1..n |-> <<>>]

\* ---------------------------------------------------------------- initial
\* The programs that can be deployed, with the compositor's max_workers
\* (app.py builds no pool).
Deployments ==
    {<<"seq", 0>>}
    \cup { <<"fast", w>> : w \in (1..MaxWorkers) \cup {FastHandlerWorkers} }
    \cup { <<e, w>> : e \in {"batch", "gpu"}, w \in 1..MaxWorkers }

\* Nothing received yet.
MainIdle ==
    /\ pc = "idle"
    /\ fields = {}
    /\ sources = <<>>
    /\ selected = <<>>
    /\ variantIds = {}
    /\ fault = [v \in VariantIds |-> "none"]
    /\ optConcurrency = 0
    /\ srcIdx = 1
    /\ vIdx = 1
    /\ results = <<>>
    /\ resp = [status |-> 0]
    /\ mockupUrls = <<>>
    /\ designAreas = <<>>
    /\ stage = "none"
    /\ task = NoTasks
    /\ val = NoValues(0)
    /\ mapPos = 1
    /\ raised = FALSE
    /\ doneOrder = <<>>
    /\ outOfOrder = FALSE
    /\ mockups = <<>>
    /\ composited = <<>>
    /\ batch = "idle"
    /\ unit = NoTasks
    /\ nLookup = 0
    /\ designFetch = [s \in SourceIdx |-> 0]
    /\ mockupFetch = [u \in SourceIdx \X VariantIds |-> 0]
    /\ nComposite = 0
    /\ uploads = <<>>

\* Pixel buffers: 0 is the decoded design shared by a batch, k the buffer
\* unit k's resize allocates, MaxUnits + k the one its rotation allocates.
Buffers == 0..(2 * MaxUnits)
Overlay == 0

\* The decoded mockup of unit k (mockups[k] / mockup_tensors[k]) and the
\* raster unit k returns are buffers of their own, named apart from the
\* overlay buffers.
MockupBuffer(k) == 100 + k
ResultBuffer(k) == 200 + k

\* No design decoded.
PixelsIdle ==
    /\ designSize = <<0, 0>>
    /\ decodedAlpha = 0
    /\ tvAlias = FALSE
    /\ heap = [b \in Buffers |-> -1]
    /\ upc = [k \in Units |-> "resize"]
    /\ ref = [k \in Units |-> Overlay]
    /\ rot = [k \in Units |-> 0]
    /\ opa = [k \in Units |-> 100]
    /\ outA = [k \in Units |-> -1]
    /\ written = [k \in Units |-> {}]

\* A raster is its size and the pixel <<colour, alpha>> it is filled with;
\* a result is kept pixel by pixel.
NoImage == [size |-> <<0, 0>>, px |-> <<0, 0>>]
NoArea == [x |-> 0, y |-> 0, width |-> 0, height |-> 0, rotation |-> 0]
NoPixels == [p \in {} |-> <<0, 0>>]

\* No single-item composite call made.
ItemIdle ==
    /\ ipc = "idle"
    /\ mockup = NoImage
    /\ area = NoArea
    /\ center = FALSE
    /\ maintainAspect = "absent"
    /\ overlay = [size |-> <<0, 0>>, a |-> 0]
    /\ at = <<0, 0>>
    /\ out = NoPixels
    /\ steps = <<>>
    /\ outcome = [kind |-> "none", error |-> "none", step |-> "none"]

\* The application imported (db = get_db() has built the database manager),
\* nothing uploaded yet.
UploadIdle ==
    /\ now = 0
    /\ variantNames = [k \in Units |-> <<>>]
    /\ upos = [k \in Units |-> "wait"]
    /\ fileName = [k \in Units |-> <<>>]
    /\ manager = [k \in Units |-> 0]
    /\ s3_manager = 0
    /\ db_manager = 1
    /\ constructed = [s3 |-> 0, db |-> 1]
    /\ puts = <<>>

Init ==
    /\ \E d \in Deployments : entry = d[1] /\ maxWorkers = d[2]
    /\ MainIdle
    /\ PixelsIdle
    /\ ItemIdle
    /\ UploadIdle

\* ------------------------------------------------- /api/composite: prologue
\* A required field is missing: 400, before anything else is read or done.
composite_images_invalid ==
    /\ pc = "idle" /\ entry \in {"seq", "fast"}
    /\ \E f \in SUBSET RequiredFields :
        /\ MissingField(f)
        /\ fields' = f
    /\ resp' = ErrorResponse(400)
    /\ pc' = "done"
    /\ UNCHANGED <<ovars, entry, sources, selected, variantIds, fault, maxWorkers,
                   optConcurrency, srcIdx, vIdx, results, bvars, cvars>>

\* Validation passes; the template lookup raises (ObjectId(template_id) on a
\* malformed id: 500) or finds nothing (404), or no requested variant
\* belongs to the template (404).
composite_images_rejected ==
    /\ pc = "idle" /\ entry \in {"seq", "fast"}
    /\ \E f \in SUBSET RequiredFields :
        /\ ~MissingField(f)
        /\ fields' = f
    /\ \E srcs \in SeqsUpTo(SourceKinds, MaxSources), oc \in 1..MaxWorkers,
          tmpl \in {"invalid", "absent", "novariant"}, ids \in RequestedIds :
        /\ tmpl = "novariant" => SelectVariants(ids) = <<>>
        /\ variantIds' = ids
        /\ sources' = srcs
        /\ optConcurrency' = oc
        /\ nLookup' = IF tmpl = "invalid" THEN nLookup ELSE nLookup + 1
        /\ resp' = ErrorResponse(IF tmpl = "invalid" THEN 500 ELSE 404)
        /\ selected' = SelectVariants({})
    /\ pc' = "done"
    /\ UNCHANGED <<ovars, entry, fault, maxWorkers, srcIdx, vIdx, results, bvars,
                   designFetch, mockupFetch, nComposite, uploads>>

\* Validation passes, the template is found and some requested variants
\* belong to it: the sources loop starts.
composite_images_accepted ==
    /\ pc = "idle" /\ entry \in {"seq", "fast"}
    /\ \E f \in SUBSET RequiredFields :
        /\ ~MissingField(f)
        /\ fields' = f
    /\ \E srcs \in SeqsUpTo(SourceKinds, MaxSources), oc \in 1..MaxWorkers,
          ids \in RequestedIds, flt \in [VariantIds -> Faults] :
        /\ SelectVariants(ids) # <<>>
        /\ variantIds' = ids
        /\ \A v \in VariantIds : v \notin ids => flt[v] = "none"
        /\ sources' = srcs
        /\ optConcurrency' = oc
        /\ selected' = SelectVariants(ids)
        /\ fault' = flt
    /\ nLookup' = nLookup + 1
    /\ results' = <<>>
    /\ srcIdx' = 1
    /\ pc' = "source"
    /\ UNCHANGED <<ovars, entry, maxWorkers, vIdx, resp, bvars,
                   designFetch, mockupFetch, nComposite, uploads>>

\* The sources loop is over: the 200 response with its counts.
composite_images_respond ==
    /\ pc = "source" /\ srcIdx > Len(sources)
    /\ resp' = OkResponse(results)
    /\ pc' = "done"
    /\ UNCHANGED <<ovars, entry, fields, sources, selected, variantIds, fault, maxWorkers,
                   optConcurrency, srcIdx, vIdx, results, bvars, cvars>>

\* Deviation used to test a property: only the type of a source is looked at.
SkipSourceByType(src) == src.type # "url"

\* A source that is not of type 'url', or has no imageUrl, is passed over.
SkipSource(src) == src.type # "url" \/ src.imageUrl = "empty"

composite_images_skip ==
    /\ pc = "source" /\ srcIdx <= Len(sources)
    /\ SkipSource(sources[srcIdx])
    /\ srcIdx' = srcIdx + 1
    /\ UNCHANGED <<ovars, entry, pc, fields, sources, selected, variantIds, fault, maxWorkers,
                   optConcurrency, vIdx, results, resp, bvars, cvars>>

\* --------------------------------------------- app.py: one unit at a time
\* composite_image(variant['imageUrl'], source_url, variant['designArea'],
\* options), generate_filename, upload_to_s3, inside the per-variant try.
\* The steps run in order and the first that raises ends the unit.
MockupLoads(v) == fault[v] # "fetch"
DesignLoads(src) == src.imageUrl = "ok"

\* Deviation used to test a property: composite_image loads the design before the mockup.
DesignRequestedFirst(v) == TRUE

\* composite_image loads the mockup, then the design: the design is
\* requested only if the mockup load did not raise.
DesignRequested(v) == MockupLoads(v)
Composes(a) == fault[a] # "geom"
Uploads(v) == fault[v] # "upload"

\* Deviation used to test a property: a request that is sent a second time.
BumpTwice(f, x) == [f EXCEPT ![x] = @ + 2]

\* session.get / requests.get: one request, no retry adapter is mounted.
Bump(f, x) == [f EXCEPT ![x] = @ + 1]

seq_unit ==
    /\ pc = "source" /\ entry = "seq"
    /\ srcIdx <= Len(sources) /\ ~SkipSource(sources[srcIdx])
    /\ LET v == selected[vIdx]
           src == sources[srcIdx]
           loaded == MockupLoads(v) /\ DesignLoads(src)
           made == loaded /\ Composes(v)
           stored == made /\ Uploads(v)
       IN  /\ mockupFetch' = Bump(mockupFetch, <<srcIdx, v>>)
           /\ designFetch' = IF DesignRequested(v) THEN Bump(designFetch, srcIdx)
                             ELSE designFetch
           /\ nComposite' = IF made THEN nComposite + 1 ELSE nComposite
           /\ uploads' = IF stored THEN Append(uploads, UploadedObject(<<v, v>>, v))
                         ELSE uploads
           /\ results' = Append(results,
                                IF stored
                                THEN SuccessEntry(v, srcIdx, UploadedObject(<<v, v>>, v))
                                ELSE FailureEntry(v, srcIdx))
    /\ IF vIdx < Len(selected)
       THEN vIdx' = vIdx + 1 /\ srcIdx' = srcIdx
       ELSE vIdx' = 1 /\ srcIdx' = srcIdx + 1
    /\ UNCHANGED <<ovars, entry, pc, fields, sources, selected, variantIds, fault, maxWorkers,
                   optConcurrency, resp, bvars, nLookup>>

\* ------------------------------------------------ composite_batch: start
\* After the design has loaded: load_images_parallel submits one fetch per
\* mockup URL to a fresh pool.
BatchStart(urls, areas) ==
    /\ mockupUrls' = urls
    /\ designAreas' = areas
    /\ stage' = "fetch"
    /\ task' = Submitted(Len(urls))
    /\ val' = NoValues(Len(urls))
    /\ mapPos' = 1
    /\ raised' = FALSE
    /\ doneOrder' = <<>>
    /\ outOfOrder' = FALSE
    /\ mockups' = <<>>
    /\ composited' = <<>>
    /\ batch' = "running"
    /\ unit' = [k \in 1..Len(urls) |-> "new"]

\* The design cannot be loaded: the batch call raises before any pool exists.
BatchAborted(urls, areas) ==
    /\ mockupUrls' = urls
    /\ designAreas' = areas
    /\ stage' = "none"
    /\ task' = NoTasks
    /\ val' = NoValues(0)
    /\ mapPos' = 1
    /\ raised' = FALSE
    /\ doneOrder' = <<>>
    /\ outOfOrder' = FALSE
    /\ mockups' = <<>>
    /\ composited' = <<>>
    /\ batch' = "aborted"
    /\ unit' = [k \in 1..Len(urls) |-> "new"]

\* except Exception as e: one failure entry per selected variant.
AllFailed(idx) == [k \in 1..Len(selected) |-> FailureEntry(selected[k], idx)]

\* app_fast.py: the batch call of a source, with the lists built from the
\* selected variants.
fast_batch_start ==
    /\ pc = "source" /\ entry = "fast"
    /\ srcIdx <= Len(sources) /\ ~SkipSource(sources[srcIdx])
    /\ DesignLoads(sources[srcIdx])
    /\ designFetch' = Bump(designFetch, srcIdx)
    /\ BatchStart(selected, selected)
    /\ pc' = "pool"
    /\ UNCHANGED <<ovars, entry, fields, sources, selected, variantIds, fault, maxWorkers,
                   optConcurrency, srcIdx, vIdx, results, resp,
                   nLookup, mockupFetch, nComposite, uploads>>

fast_design_fails ==
    /\ pc = "source" /\ entry = "fast"
    /\ srcIdx <= Len(sources) /\ ~SkipSource(sources[srcIdx])
    /\ ~DesignLoads(sources[srcIdx])
    /\ designFetch' = Bump(designFetch, srcIdx)
    /\ BatchAborted(selected, selected)
    /\ results' = results \o AllFailed(srcIdx)
    /\ srcIdx' = srcIdx + 1
    /\ UNCHANGED <<ovars, entry, pc, fields, sources, selected, variantIds, fault, maxWorkers,
                   optConcurrency, vIdx, resp,
                   nLookup, mockupFetch, nComposite, uploads>>

\* composite_batch / composite_batch_gpu called directly with lists of the
\* caller's choosing (their lengths need not agree).
BatchFaults == {"none", "fetch", "geom"}

batch_call ==
    /\ pc = "idle" /\ entry \in {"batch", "gpu"}
    /\ \E nM \in 0..MaxUnits, nA \in 0..MaxUnits, oc \in 1..MaxWorkers,
          design \in {"ok", "bad"}, flt \in [VariantIds -> BatchFaults] :
        /\ \A v \in VariantIds :
              /\ flt[v] = "fetch" => v <= nM
              /\ flt[v] = "geom" => v <= nA
        /\ sources' = <<[type |-> "url", imageUrl |-> design]>>
        /\ fault' = flt
        /\ optConcurrency' = oc
        /\ IF design = "ok"
           THEN BatchStart(Iota(nM), Iota(nA)) /\ pc' = "pool"
           ELSE BatchAborted(Iota(nM), Iota(nA)) /\ pc' = "done"
    /\ designFetch' = Bump(designFetch, 1)
    /\ srcIdx' = 1
    /\ UNCHANGED <<ovars, entry, fields, selected, variantIds, maxWorkers, vIdx, results, resp,
                   nLookup, mockupFetch, nComposite, uploads>>

\* ------------------------------------------------------ a pool's workers
\* The value task k of stage st computes, and whether it raises instead.
\* fetch: load_image_from_url(mockup_urls[k]); composite: composite_single
\* on the k-th pair of zip(mockups, design_areas); upload: upload_single on
\* the k-th pair of zip(composited_images, selected_variants).
TaskRaises(st, k) ==
    CASE st = "fetch" -> ~MockupLoads(mockupUrls[k])
      [] st = "composite" -> ~Composes(designAreas[k])
      [] OTHER -> ~Uploads(selected[k])

TaskValue(st, k) ==
    CASE st = "fetch" -> <<mockupUrls[k]>>
      [] st = "composite" -> <<mockups[k][1], designAreas[k]>>
      [] OTHER -> SuccessEntry(selected[k], srcIdx,
                               UploadedObject(composited[k], selected[k]))

\* A worker takes the oldest queued task.
pool_start(k) ==
    /\ pc = "pool"
    /\ k \in DOMAIN task /\ task[k] = "pending"
    /\ \A j \in 1..(k - 1) : task[j] # "pending"
    /\ WorkerFree(stage)
    /\ task' = [task EXCEPT ![k] = "running"]
    /\ mockupFetch' = IF stage = "fetch"
                      THEN Bump(mockupFetch, <<srcIdx, mockupUrls[k]>>)
                      ELSE mockupFetch
    /\ unit' = CASE stage = "fetch" -> [unit EXCEPT ![k] = "fetching"]
                 [] stage = "composite" -> [unit EXCEPT ![k] = "compositing"]
                 [] OTHER -> unit
    /\ UNCHANGED <<ovars, hvars, mockupUrls, designAreas, stage, val, mapPos, raised,
                   doneOrder, outOfOrder, mockups, composited, batch,
                   nLookup, designFetch, nComposite, uploads>>

\* A running task ends, with its value or with an exception.
pool_finish(k) ==
    /\ pc = "pool"
    /\ k \in DOMAIN task /\ task[k] = "running"
    /\ LET bad == TaskRaises(stage, k)
       IN  /\ task' = [task EXCEPT ![k] = IF bad THEN "err" ELSE "ok"]
           /\ val' = IF bad THEN val ELSE [val EXCEPT ![k] = TaskValue(stage, k)]
           /\ nComposite' = IF stage = "composite" /\ ~bad
                            THEN nComposite + 1 ELSE nComposite
           /\ uploads' = IF stage = "upload" /\ ~bad
                         THEN Append(uploads, UploadedObject(composited[k], selected[k]))
                         ELSE uploads
           /\ unit' = CASE stage = "fetch" ->
                            [unit EXCEPT ![k] = IF bad THEN "failed" ELSE "fetched"]
                        [] stage = "composite" ->
                            [unit EXCEPT ![k] = IF bad THEN "failed" ELSE "completed"]
                        [] OTHER -> unit
    /\ doneOrder' = Append(doneOrder, k)
    /\ outOfOrder' = (outOfOrder \/ \E j \in 1..(k - 1) : task[j] \in {"pending", "running"})
    /\ UNCHANGED <<ovars, hvars, mockupUrls, designAreas, stage, mapPos, raised,
                   mockups, composited, batch, nLookup, designFetch, mockupFetch>>

\* The main thread, inside list(executor.map(...)): the next future in
\* submission order has ended.  Its exception is re-raised, and the futures
\* not yet started are cancelled.
map_next ==
    /\ pc = "pool" /\ ~raised
    /\ mapPos <= Len(task)
    /\ task[mapPos] \in {"ok", "err"}
    /\ IF task[mapPos] = "ok"
       THEN /\ mapPos' = mapPos + 1
            /\ UNCHANGED <<raised, task, unit>>
       ELSE /\ raised' = TRUE
            /\ task' = CancelPending(task, mapPos)
            /\ unit' = IF stage = "upload" THEN unit
                       ELSE [k \in DOMAIN unit |->
                               IF k \in DOMAIN task /\ CancelPending(task, mapPos)[k] = "cancelled"
                               THEN "cancelled" ELSE unit[k]]
            /\ UNCHANGED mapPos
    /\ UNCHANGED <<ovars, hvars, mockupUrls, designAreas, stage, val, doneOrder,
                   outOfOrder, mockups, composited, batch, cvars>>

\* Leaving the with-block waits for the running tasks (shutdown(wait=True)).
PoolDrained == Running = {} /\ (raised \/ mapPos > Len(task))

\* The pool of the next stage, with n tasks submitted.
NextPool(st, n) ==
    /\ stage' = st
    /\ task' = Submitted(n)
    /\ val' = NoValues(n)
    /\ mapPos' = 1
    /\ raised' = FALSE
    /\ doneOrder' = <<>>

NoPool ==
    /\ stage' = "none"
    /\ task' = NoTasks
    /\ val' = NoValues(0)
    /\ mapPos' = 1
    /\ raised' = FALSE
    /\ doneOrder' = <<>>

\* load_images_parallel returns; composite_batch submits one composite per
\* pair of zip(mockups, design_areas).
fetch_pool_exit ==
    /\ pc = "pool" /\ stage = "fetch" /\ entry \in {"fast", "batch"}
    /\ PoolDrained /\ ~raised
    /\ mockups' = MapResults(val, Len(task), doneOrder)
    /\ NextPool("composite", Min(Len(task), Len(designAreas)))
    /\ UNCHANGED <<ovars, hvars, mockupUrls, designAreas, outOfOrder, composited,
                   batch, unit, cvars>>

\* composite_batch_gpu: the mockups are loaded; the composites run in a loop
\* on the calling thread.
gpu_fetch_pool_exit ==
    /\ pc = "pool" /\ stage = "fetch" /\ entry = "gpu"
    /\ PoolDrained /\ ~raised
    /\ mockups' = MapResults(val, Len(task), doneOrder)
    /\ NoPool
    /\ vIdx' = 1
    /\ pc' = "gpu_loop"
    /\ UNCHANGED <<ovars, entry, fields, sources, selected, variantIds, fault, maxWorkers,
                   optConcurrency, srcIdx, results, resp,
                   mockupUrls, designAreas, outOfOrder, composited, batch,
                   unit, cvars>>

\* composite_batch returns its list to a direct caller.
batch_returns ==
    /\ pc = "pool" /\ stage = "composite" /\ entry = "batch"
    /\ PoolDrained /\ ~raised
    /\ composited' = MapResults(val, Len(task), doneOrder)
    /\ batch' = "returned"
    /\ NoPool
    /\ pc' = "done"
    /\ UNCHANGED <<ovars, entry, fields, sources, selected, variantIds, fault, maxWorkers,
                   optConcurrency, srcIdx, vIdx, results, resp,
                   mockupUrls, designAreas, outOfOrder, mockups, unit, cvars>>

\* composite_batch returns to the fast handler, which submits one upload per
\* pair of zip(composited_images, selected_variants) to a pool of 8.
fast_batch_returns ==
    /\ pc = "pool" /\ stage = "composite" /\ entry = "fast"
    /\ PoolDrained /\ ~raised
    /\ composited' = MapResults(val, Len(task), doneOrder)
    /\ batch' = "returned"
    /\ NextPool("upload", Min(Len(task), Len(selected)))
    /\ UNCHANGED <<ovars, hvars, mockupUrls, designAreas, outOfOrder, mockups,
                   unit, cvars>>

\* results.extend(upload_results)
fast_uploads_done ==
    /\ pc = "pool" /\ stage = "upload" /\ entry = "fast"
    /\ PoolDrained /\ ~raised
    /\ results' = results \o MapResults(val, Len(task), doneOrder)
    /\ NoPool
    /\ srcIdx' = srcIdx + 1
    /\ pc' = "source"
    /\ UNCHANGED <<ovars, entry, fields, sources, selected, variantIds, fault, maxWorkers,
                   optConcurrency, vIdx, resp,
                   mockupUrls, designAreas, outOfOrder, mockups, composited,
                   batch, unit, cvars>>

\* An exception leaves the batch call or the upload pool of the fast handler:
\* "If batch processing fails, add error for all variants".
fast_batch_failed ==
    /\ pc = "pool" /\ entry = "fast"
    /\ PoolDrained /\ raised
    /\ results' = results \o AllFailed(srcIdx)
    /\ batch' = IF stage = "upload" THEN batch ELSE "raised"
    /\ NoPool
    /\ srcIdx' = srcIdx + 1
    /\ pc' = "source"
    /\ UNCHANGED <<ovars, entry, fields, sources, selected, variantIds, fault, maxWorkers,
                   optConcurrency, vIdx, resp,
                   mockupUrls, designAreas, outOfOrder, mockups, composited,
                   unit, cvars>>

\* An exception leaves a directly called batch.
batch_raises ==
    /\ pc = "pool" /\ entry \in {"batch", "gpu"}
    /\ PoolDrained /\ raised
    /\ batch' = "raised"
    /\ NoPool
    /\ pc' = "done"
    /\ UNCHANGED <<ovars, entry, fields, sources, selected, variantIds, fault, maxWorkers,
                   optConcurrency, srcIdx, vIdx, results, resp,
                   mockupUrls, designAreas, outOfOrder, mockups, composited,
                   unit, cvars>>

\* -------------------------------------------- composite_batch_gpu: the loop
GpuUnits == Min(Len(mockups), Len(designAreas))

\* One iteration of for mockup_tensor, design_area in zip(...): composite_gpu
\* and the PNG encoding of unit vIdx; an exception leaves the call.
gpu_unit ==
    /\ pc = "gpu_loop" /\ vIdx <= GpuUnits
    /\ IF Composes(designAreas[vIdx])
       THEN /\ composited' = Append(composited, <<mockups[vIdx][1], designAreas[vIdx]>>)
            /\ nComposite' = nComposite + 1
            /\ unit' = [unit EXCEPT ![vIdx] = "completed"]
            /\ vIdx' = vIdx + 1
            /\ UNCHANGED <<pc, batch>>
       ELSE /\ unit' = [unit EXCEPT ![vIdx] = "failed"]
            /\ batch' = "raised"
            /\ pc' = "done"
            /\ UNCHANGED <<composited, nComposite, vIdx>>
    /\ UNCHANGED <<ovars, entry, fields, sources, selected, variantIds, fault, maxWorkers,
                   optConcurrency, srcIdx, results, resp,
                   mockupUrls, designAreas, stage, task, val, mapPos, raised,
                   doneOrder, outOfOrder, mockups,
                   nLookup, designFetch, mockupFetch, uploads>>

gpu_returns ==
    /\ pc = "gpu_loop" /\ vIdx > GpuUnits
    /\ batch' = "returned"
    /\ pc' = "done"
    /\ UNCHANGED <<ovars, entry, fields, sources, selected, variantIds, fault, maxWorkers,
                   optConcurrency, srcIdx, vIdx, results, resp,
                   mockupUrls, designAreas, stage, task, val, mapPos, raised,
                   doneOrder, outOfOrder, mockups, composited, unit, cvars>>

\* ------------------------------------------------------------ specification
Next ==
    \/ composite_images_invalid
    \/ composite_images_rejected
    \/ composite_images_accepted
    \/ composite_images_respond
    \/ composite_images_skip
    \/ seq_unit
    \/ fast_batch_start
    \/ fast_design_fails
    \/ batch_call
    \/ \E k \in Units : pool_start(k)
    \/ \E k \in Units : pool_finish(k)
    \/ map_next
    \/ fetch_pool_exit
    \/ gpu_fetch_pool_exit
    \/ batch_returns
    \/ fast_batch_returns
    \/ fast_uploads_done
    \/ fast_batch_failed
    \/ batch_raises
    \/ gpu_unit
    \/ gpu_returns

Spec == Init /\ [][Next]_vars

\* =========================================== the transform pipeline of a unit
\* What composite_fast (PIL) and composite_gpu (tensors) do to the decoded
\* design shared by the units of a batch.  A raster is abstracted to the
\* buffer that holds it and to its alpha.
Dims == 1..MaxDim
Rotations == {0, 90}
Opacities == {50, 100}
Alphas == {128, 255}

\* Deviation used to test a property: the overlay is scaled to cover the area.
ResizeTargetCover(ow, oh, w, h) ==
    IF ow * h > w * oh
    THEN <<(h * ow) \div oh, h>>
    ELSE <<w, (w * oh) \div ow>>

\* resize_image_fast / resize_tensor with maintain_aspect: the size the
\* overlay (ow x oh) is resized to for a design area of w x h.  The float
\* quotients of the code are exact for sizes this small.
ResizeTarget(ow, oh, w, h) ==
    IF ow * h > w * oh
    THEN <<w, (w * oh) \div ow>>
    ELSE <<(h * ow) \div oh, h>>

\* Whether the resize step hands back the very buffer it was given.
\* PIL's Image.resize always returns a new image (a copy when the size is
\* unchanged); torchvision's TF.resize returns its input tensor when the
\* output size equals the input size (tvAlias: the installed version does).
ResizeReturnsInput(target) ==
    entry = "gpu" /\ tvAlias /\ target = designSize

\* alpha.point(lambda p: int(p * opacity)) / tensor[3] *= opacity
ScaleAlpha(a, o) == (a * o) \div 100

InFlight == { k \in Units : upc[k] \in {"rotate", "opacity", "paste"} }

\* composite_batch_gpu runs its units one after the other on the calling
\* thread; composite_batch runs up to max_workers of them at a time, started
\* in submission order.
MayStart(k) ==
    IF entry = "gpu"
    THEN \A j \in 1..(k - 1) : upc[j] = "done"
    ELSE /\ \A j \in 1..(k - 1) : upc[j] # "resize"
         /\ Cardinality(InFlight) < maxWorkers

\* Resize the design to fit the unit's design area.
unit_resize(k) ==
    /\ upc[k] = "resize" /\ MayStart(k)
    /\ \E w \in Dims, h \in Dims, r \in Rotations, o \in Opacities :
        LET target == ResizeTarget(designSize[1], designSize[2], w, h)
        IN  /\ rot' = [rot EXCEPT ![k] = r]
            /\ opa' = [opa EXCEPT ![k] = o]
            /\ IF target[1] = 0 \/ target[2] = 0
               THEN /\ upc' = [upc EXCEPT ![k] = "failed"]
                    /\ UNCHANGED <<ref, heap>>
               ELSE /\ upc' = [upc EXCEPT ![k] = "rotate"]
                    /\ IF ResizeReturnsInput(target)
                       THEN /\ ref' = [ref EXCEPT ![k] = Overlay]
                            /\ UNCHANGED heap
                       ELSE /\ ref' = [ref EXCEPT ![k] = k]
                            /\ heap' = [heap EXCEPT ![k] = heap[Overlay]]
    /\ UNCHANGED <<hvars, bvars, cvars, ivars, uvars, designSize, decodedAlpha, tvAlias,
                   outA, written>>

\* if rotation != 0: rotate(..., expand=True) returns a new raster.
unit_rotate(k) ==
    /\ upc[k] = "rotate"
    /\ IF rot[k] # 0
       THEN /\ ref' = [ref EXCEPT ![k] = MaxUnits + k]
            /\ heap' = [heap EXCEPT ![MaxUnits + k] = heap[ref[k]]]
       ELSE UNCHANGED <<ref, heap>>
    /\ upc' = [upc EXCEPT ![k] = "opacity"]
    /\ UNCHANGED <<hvars, bvars, cvars, ivars, uvars, designSize, decodedAlpha, tvAlias,
                   rot, opa, outA, written>>

\* if opacity < 1.0: the alpha of resized_overlay is scaled in place
\* (putalpha / tensor[3, :, :] *= opacity).
unit_opacity(k) ==
    /\ upc[k] = "opacity"
    /\ heap' = IF opa[k] < 100
               THEN [heap EXCEPT ![ref[k]] = ScaleAlpha(@, opa[k])]
               ELSE heap
    /\ written' = IF opa[k] < 100
                  THEN [written EXCEPT ![k] = @ \cup {ref[k]}]
                  ELSE written
    /\ upc' = [upc EXCEPT ![k] = "paste"]
    /\ UNCHANGED <<hvars, bvars, cvars, ivars, uvars, designSize, decodedAlpha, tvAlias,
                   ref, rot, opa, outA>>

\* Deviation used to test a property: the overlay is pasted into the mockup itself.
PasteTargetInPlace(k) == MockupBuffer(k)

\* result = base_image.copy() / base_tensor.clone(): the buffer the blend
\* writes is a copy of the unit's mockup, made by this unit.
PasteTarget(k) == ResultBuffer(k)

\* The overlay is blended into the unit's copy of its mockup.
unit_paste(k) ==
    /\ upc[k] = "paste"
    /\ outA' = [outA EXCEPT ![k] = heap[ref[k]]]
    /\ written' = [written EXCEPT ![k] = @ \cup {PasteTarget(k)}]
    /\ upc' = [upc EXCEPT ![k] = "done"]
    /\ UNCHANGED <<hvars, bvars, cvars, ivars, uvars, designSize, decodedAlpha, tvAlias,
                   heap, ref, rot, opa>>

\* A batch whose design has just been decoded.
PixelsInit ==
    /\ \E d \in Deployments :
          /\ d[1] \in {"fast", "gpu"}
          /\ entry = d[1]
          /\ maxWorkers = d[2]
    /\ MainIdle
    /\ designSize \in Dims \X Dims
    /\ decodedAlpha \in Alphas
    /\ tvAlias \in (IF entry = "gpu" THEN BOOLEAN ELSE {FALSE})
    /\ heap = [b \in Buffers |-> IF b = Overlay THEN decodedAlpha ELSE -1]
    /\ upc = [k \in Units |-> "resize"]
    /\ ref = [k \in Units |-> Overlay]
    /\ rot = [k \in Units |-> 0]
    /\ opa = [k \in Units |-> 100]
    /\ outA = [k \in Units |-> -1]
    /\ written = [k \in Units |-> {}]
    /\ ItemIdle
    /\ UploadIdle

PixelsNext ==
    \/ \E k \in Units : unit_resize(k)
    \/ \E k \in Units : unit_rotate(k)
    \/ \E k \in Units : unit_opacity(k)
    \/ \E k \in Units : unit_paste(k)

SpecPixels == PixelsInit /\ [][PixelsNext]_vars

\* ======================================== the single-item composite call
\* composite_image (image_utils.py), composite_image_fast
\* (image_utils_fast.py) and composite_image_gpu (image_utils_gpu.py): load
\* the mockup, load the design, resize / rotate / scale the alpha of the
\* design, blend it into a copy of the mockup, encode.  Rasters are of one
\* colour; sizes, offsets and pixel values are computed as the code does.
ItemCalls == {"composite_image", "composite_image_fast", "composite_image_gpu"}

\* The tensor strategy (composite_gpu); the other two use PIL.
Tensor == entry = "composite_image_gpu"

\* Mockups: sizes and pixels <<colour, alpha>> the decoded mockup may have.
BaseSizes == {<<1, 1>>, <<2, 1>>, <<1, 2>>, <<2, 2>>}
BasePixels == {<<200, 255>>, <<200, 100>>}

\* Colour and alpha of the decoded design.
OverlayColour == 40
ItemAlphas == {128, 200}

\* design_area: x, y, width, height, rotation and, when given, opacity
\* (percent: -50 is -0.5, 150 is 1.5).
AreaXs == {-1, 0, 1}
AreaYs == {0, 1}
AreaDims == 0..MaxDim
ItemOpacities == {-50, 50, 100, 150}
DesignAreas ==
    [x : AreaXs, y : AreaYs, width : AreaDims, height : AreaDims,
     rotation : Rotations]
    \cup [x : AreaXs, y : AreaYs, width : AreaDims, height : AreaDims,
          rotation : Rotations, opacity : ItemOpacities]

Max(a, b) == IF a >= b THEN a ELSE b

\* int(n / d) for d > 0: Python's int() truncates toward zero.
Trunc(n, d) == IF n >= 0 THEN n \div d ELSE -((-n) \div d)

\* design_area.get('opacity', 1.0)
OpacityOf(da) == IF "opacity" \in DOMAIN da THEN da.opacity ELSE 100

\* options['maintainAspect'] of the request: not given, true or false.
MaintainAspectOptions == {"absent", "true", "false"}

\* resize_image(overlay_image, width, height, maintain_aspect=True): the
\* argument composite_images, composite_fast and composite_gpu pass to their
\* resize step is the literal True; options is not consulted.
MaintainAspectArg(opt) == TRUE

\* resize_image / resize_image_fast / resize_tensor: without maintain_aspect
\* the design is stretched to the area, with it it is fitted.
ResizeImage(ow, oh, w, h, keep) ==
    IF keep THEN ResizeTarget(ow, oh, w, h) ELSE <<w, h>>

\* What the resize step raises for a design of ow x oh and an area of
\* w x h: target_aspect = width / height divides by zero when height is 0;
\* Image.resize and TF.resize reject a target with an empty side.
ResizeError(ow, oh, w, h) ==
    IF h = 0 THEN "ZeroDivisionError"
    ELSE LET target == ResizeTarget(ow, oh, w, h)
         IN  IF target[1] < 1 \/ target[2] < 1
             THEN IF Tensor THEN "RuntimeError" ELSE "ValueError"
             ELSE "none"

\* Deviation used to test a property: the overlay is turned whatever the angle.
RotatedSizeTurned(size, r) == <<size[2], size[1]>>

\* if rotation != 0: rotate(rotation, expand=True); a quarter turn swaps the
\* sides, rotation 0 leaves resized_overlay as it is.
RotatedSize(size, r) == IF r = 90 THEN <<size[2], size[1]>> ELSE size

\* Deviation used to test a property: the alpha is scaled whenever opacity is not 1.0.
OpacityAppliesUnlessOne(o) == o # 100

\* if opacity < 1.0:
OpacityApplies(o) == o < 100

\* An 8-bit look-up table entry: Image.point stores its values clipped to 0..255.
Clip8(v) == Max(0, Min(255, v))

\* Deviation used to test a property: the tensor's alpha is clipped like a look-up table entry.
ScaledAlphaClipped(a, o) == Clip8(Trunc(a * o, 100))

\* The alpha of the overlay after the opacity step.
\* PIL: alpha.point(lambda p: int(p * opacity)), putalpha(alpha).
\* Tensor: tensor[3, :, :] *= opacity, no rounding and no clipping (the
\* alphas and opacities used here have an exact product).
ScaledAlpha(a, o) ==
    IF Tensor THEN (a * o) \div 100 ELSE Clip8(Trunc(a * o, 100))

\* Deviation used to test a property: centring rounds the offset down by one more pixel.
PastePosOff(x, w, bw, c) == IF c THEN Trunc(2 * x + (w - bw), 2) - 1 ELSE x

\* paste_x = int(x), and int(x + (width - overlay.width) / 2) when centring.
PastePos(x, w, bw, c) == IF c THEN Trunc(2 * x + (w - bw), 2) ELSE x

\* composite_gpu: paste_x = max(0, min(paste_x, base_w - overlay_w));
\* the PIL strategies paste at the computed offset.
Placed(p, baseDim, ovDim) ==
    IF Tensor THEN Max(0, Min(p, baseDim - ovDim)) ELSE p

\* Pixels of a raster of the given size, 0-based.
Pixels(size) == (0..(size[1] - 1)) \X (0..(size[2] - 1))

\* The pixels of the base that the overlay placed at pos covers.
Overlap(baseSize, pos, ovSize) ==
    { p \in Pixels(baseSize) :
        /\ pos[1] <= p[1] /\ p[1] < pos[1] + ovSize[1]
        /\ pos[2] <= p[2] /\ p[2] < pos[2] + ovSize[2] }

\* Image.paste(overlay, box, overlay): every band of the result, alpha
\* included, is mixed with the overlay's alpha as the mask,
\* (base * (255 - mask) + overlay * mask) / 255 rounded to nearest.
PasteMix(b, o, m) == (b * (255 - m) + o * m + 127) \div 255
PastePixel(bp, col, a) == <<PasteMix(bp[1], col, a), PasteMix(bp[2], a, a)>>

\* composite_gpu: rgb = overlay * alpha + base * (1 - alpha) and
\* alpha = maximum(base alpha, alpha), on floats in 0..1; tensor_to_pil then
\* does (tensor * 255).byte().  Values are kept here in 1/255 units.
BlendColour(b, o, a) == (o * a + b * (255 - a)) \div 255

\* Deviation used to test a property: the tensor blend mixes the alpha as the paste does.
BlendAlphaMixed(b, a) == PasteMix(b, a, a)
BlendAlpha(b, a) == Max(b, a)

\* .byte() of a float outside 0..255 is not defined: the value wraps or
\* saturates, depending on the build.
ToByte(v, wrap) == IF v \in 0..255 THEN v ELSE IF wrap THEN v % 256 ELSE Clip8(v)
BlendPixel(bp, col, a, wrap) ==
    <<ToByte(BlendColour(bp[1], col, a), wrap), BlendAlpha(bp[2], a)>>

\* The result: a copy of the base in which the pixels under the overlay
\* (of the given size and alpha, placed at pos) are blended.
Blended(base, size, a, pos, wrap) ==
    [p \in Pixels(base.size) |->
        IF p \notin Overlap(base.size, pos, size) THEN base.px
        ELSE IF Tensor THEN BlendPixel(base.px, OverlayColour, a, wrap)
             ELSE PastePixel(base.px, OverlayColour, a)]

\* The tensor blend writes result[:, py:py+oh, px:px+ow]: when the overlay
\* is larger than the base the slice is shorter than the overlay and the
\* assignment raises.
BlendRaises(baseSize, ovSize) ==
    Tensor /\ (ovSize[1] > baseSize[1] \/ ovSize[2] > baseSize[2])

NoOutcome == [kind |-> "none", error |-> "none", step |-> "none"]
Bytes == [kind |-> "bytes", error |-> "none", step |-> "none"]

\* Deviation used to test a property: the exception is noted and the call goes on.
RaisesAndGoesOn(e, step, next) ==
    /\ outcome' = [kind |-> "error", error |-> e, step |-> step]
    /\ ipc' = next

\* Nothing in composite_image* catches: an exception raised by a step
\* leaves the call at once and reaches the caller.
Raises(e, step, next) ==
    /\ outcome' = [kind |-> "error", error |-> e, step |-> step]
    /\ ipc' = "raised"

\* mockup = compositor.load_image_from_url(mockup_url)
item_load_mockup ==
    /\ entry \in ItemCalls /\ ipc = "idle"
    /\ steps' = Append(steps, "mockup")
    /\ \/ /\ Raises("Exception", "mockup", "design")
          /\ UNCHANGED mockup
       \/ /\ mockup' \in [size : BaseSizes, px : BasePixels]
          /\ ipc' = "design"
          /\ UNCHANGED outcome
    /\ UNCHANGED <<hvars, bvars, cvars, uvars, maintainAspect, designSize, decodedAlpha,
                   tvAlias, heap,
                   upc, ref, rot, opa, outA, written, area, center, overlay,
                   at, out>>

\* design = compositor.load_image_from_url(design_url)
item_load_design ==
    /\ ipc = "design"
    /\ steps' = Append(steps, "design")
    /\ \/ /\ Raises("Exception", "design", "resize")
          /\ UNCHANGED <<designSize, decodedAlpha>>
       \/ /\ designSize' \in Dims \X Dims
          /\ decodedAlpha' \in ItemAlphas
          /\ ipc' = "resize"
          /\ UNCHANGED outcome
    /\ UNCHANGED <<hvars, bvars, cvars, uvars, maintainAspect, tvAlias, heap, upc, ref,
                   rot, opa, outA, written, mockup, area, center, overlay, at, out>>

\* The call of composite_images / composite_fast / composite_gpu with the
\* fields of design_area and options, and its first step: the resize.
item_resize ==
    /\ ipc = "resize"
    /\ steps' = Append(steps, "resize")
    /\ \E da \in DesignAreas, c \in BOOLEAN :
        LET err == ResizeError(designSize[1], designSize[2], da.width, da.height)
        IN  /\ area' = da
            /\ center' = c
            /\ IF err # "none"
               THEN /\ Raises(err, "resize", "rotate")
                    /\ UNCHANGED overlay
               ELSE /\ overlay' = [size |-> ResizeImage(designSize[1], designSize[2],
                                                        da.width, da.height,
                                                        MaintainAspectArg(maintainAspect)),
                                   a |-> decodedAlpha]
                    /\ ipc' = "rotate"
                    /\ UNCHANGED outcome
    /\ UNCHANGED <<hvars, bvars, cvars, uvars, maintainAspect, designSize, decodedAlpha,
                   tvAlias, heap,
                   upc, ref, rot, opa, outA, written, mockup, at, out>>

\* if rotation != 0: rotate
item_rotate ==
    /\ ipc = "rotate"
    /\ steps' = Append(steps, "rotate")
    /\ overlay' = [overlay EXCEPT !.size = RotatedSize(@, area.rotation)]
    /\ ipc' = "opacity"
    /\ UNCHANGED <<hvars, bvars, cvars, uvars, maintainAspect, designSize, decodedAlpha,
                   tvAlias, heap,
                   upc, ref, rot, opa, outA, written, mockup, area, center,
                   at, out, outcome>>

\* if opacity < 1.0: scale the alpha of resized_overlay
item_opacity ==
    /\ ipc = "opacity"
    /\ steps' = Append(steps, "opacity")
    /\ overlay' = IF OpacityApplies(OpacityOf(area))
                  THEN [overlay EXCEPT !.a = ScaledAlpha(@, OpacityOf(area))]
                  ELSE overlay
    /\ ipc' = "paste"
    /\ UNCHANGED <<hvars, bvars, cvars, uvars, maintainAspect, designSize, decodedAlpha,
                   tvAlias, heap,
                   upc, ref, rot, opa, outA, written, mockup, area, center,
                   at, out, outcome>>

\* Offset, copy of the base, blend.
item_paste ==
    /\ ipc = "paste"
    /\ steps' = Append(steps, "paste")
    /\ LET pos == <<Placed(PastePos(area.x, area.width, overlay.size[1], center),
                           mockup.size[1], overlay.size[1]),
                    Placed(PastePos(area.y, area.height, overlay.size[2], center),
                           mockup.size[2], overlay.size[2])>>
           inRange == BlendColour(mockup.px[1], OverlayColour, overlay.a) \in 0..255
       IN  IF BlendRaises(mockup.size, overlay.size)
           THEN /\ Raises("RuntimeError", "paste", "encode")
                /\ UNCHANGED <<at, out>>
           ELSE /\ at' = pos
                /\ \E wrap \in (IF Tensor /\ ~inRange THEN BOOLEAN ELSE {FALSE}) :
                     out' = Blended(mockup, overlay.size, overlay.a, pos, wrap)
                /\ ipc' = "encode"
                /\ UNCHANGED outcome
    /\ UNCHANGED <<hvars, bvars, cvars, uvars, maintainAspect, designSize, decodedAlpha,
                   tvAlias, heap,
                   upc, ref, rot, opa, outA, written, mockup, area, center,
                   overlay>>

\* image_to_bytes / image_to_bytes_fast / result_pil.save
item_encode ==
    /\ ipc = "encode"
    /\ steps' = Append(steps, "encode")
    /\ \/ Raises("Exception", "encode", "returned")
       \/ /\ outcome' = Bytes
          /\ ipc' = "returned"
    /\ UNCHANGED <<hvars, bvars, cvars, uvars, maintainAspect, designSize, decodedAlpha,
                   tvAlias, heap,
                   upc, ref, rot, opa, outA, written, mockup, area, center,
                   overlay, at, out>>

\* A call of composite_image, composite_image_fast or composite_image_gpu.
ItemInit ==
    /\ entry \in ItemCalls
    /\ maxWorkers = 0
    /\ MainIdle
    /\ PixelsIdle
    /\ ItemIdle
    /\ UploadIdle

ItemNext ==
    \/ item_load_mockup
    \/ item_load_design
    \/ item_resize
    \/ item_rotate
    \/ item_opacity
    \/ item_paste
    \/ item_encode

SpecItem == ItemInit /\ [][ItemNext]_vars

\* The resize step on its own, under every options['maintainAspect'] a
\* caller may supply: the call has loaded a mockup and a design and is about
\* to resize.
ResizeInit ==
    /\ entry \in ItemCalls
    /\ maxWorkers = 0
    /\ MainIdle
    /\ tvAlias = FALSE
    /\ heap = [b \in Buffers |-> -1]
    /\ upc = [k \in Units |-> "resize"]
    /\ ref = [k \in Units |-> Overlay]
    /\ rot = [k \in Units |-> 0]
    /\ opa = [k \in Units |-> 100]
    /\ outA = [k \in Units |-> -1]
    /\ written = [k \in Units |-> {}]
    /\ designSize \in Dims \X Dims
    /\ decodedAlpha \in ItemAlphas
    /\ ipc = "resize"
    /\ mockup = [size |-> <<1, 1>>, px |-> <<200, 255>>]
    /\ area = NoArea
    /\ center = FALSE
    /\ maintainAspect \in MaintainAspectOptions
    /\ overlay = [size |-> <<0, 0>>, a |-> 0]
    /\ at = <<0, 0>>
    /\ out = NoPixels
    /\ steps = <<"mockup", "design">>
    /\ outcome = NoOutcome
    /\ UploadIdle

SpecResize == ResizeInit /\ [][item_resize]_vars

\* ============================================ the uploads of a request
\* What generate_filename (utils.py) and upload_to_s3 (s3_utils.py) do for
\* the units of a request: the threads of the fast handler's upload pool run
\* upload_single side by side, app.py uploads one unit after the other.
\* Before that the application is imported, which builds the database
\* manager.
MaxClock == 2

\* Names a template may give its variants, as lists of characters.
VariantNames == {<<"A", " ", "b">>, <<"a", "-", "b">>, <<"b">>}

\* data.get('productNamePrefix', 'Design')
ProductNamePrefix == <<"D">>

\* text.lower()
Lower(c) ==
    CASE c = "A" -> "a"
      [] c = "B" -> "b"
      [] c = "D" -> "d"
      [] OTHER -> c

\* [a-z0-9]
SafeChar(c) == c \in {"a", "b", "d", "0", "1"}

\* re.sub(r'-+', '-', text): runs of hyphens become one hyphen.
RECURSIVE Collapse(_)
Collapse(t) ==
    IF Len(t) <= 1 THEN t
    ELSE IF t[1] = "-" /\ t[2] = "-" THEN Collapse(Tail(t))
    ELSE <<t[1]>> \o Collapse(Tail(t))

\* re.sub(r'[^a-z0-9]+', '-', text): every run of other characters becomes
\* one hyphen.
Hyphenate(t) == Collapse([i \in DOMAIN t |-> IF SafeChar(t[i]) THEN t[i] ELSE "-"])

\* text.strip('-')
RECURSIVE Strip(_)
Strip(t) ==
    IF t = <<>> THEN t
    ELSE IF t[1] = "-" THEN Strip(Tail(t))
    ELSE IF t[Len(t)] = "-" THEN Strip(SubSeq(t, 1, Len(t) - 1))
    ELSE t

\* clean_filename
clean_filename(text) ==
    Collapse(Strip(Hyphenate([i \in DOMAIN text |-> Lower(text[i])])))

\* f"{clean_prefix}-{clean_variant}-{timestamp}.{extension}" with
\* timestamp = int(time.time() * 1000); nothing else tells two units apart.
generate_filename(prefix, variant_name) ==
    <<clean_filename(prefix), clean_filename(variant_name), now>>

\* app.py / app_fast.py at import: db = get_db(), and get_db_manager builds
\* the DatabaseManager when db_manager is None.
get_db_manager ==
    /\ db_manager = 0
    /\ db_manager' = constructed.db + 1
    /\ constructed' = [constructed EXCEPT !.db = @ + 1]
    /\ UNCHANGED <<hvars, bvars, cvars, designSize, decodedAlpha, tvAlias, heap,
                   upc, ref, rot, opa, outA, written, ivars,
                   now, variantNames, upos, fileName, manager, s3_manager, puts>>

\* A millisecond passes.
tick ==
    /\ db_manager # 0 /\ now < MaxClock
    /\ now' = now + 1
    /\ UNCHANGED <<hvars, bvars, cvars, designSize, decodedAlpha, tvAlias, heap,
                   upc, ref, rot, opa, outA, written, ivars,
                   variantNames, upos, fileName, manager, s3_manager, db_manager,
                   constructed, puts>>

Uploading == { k \in Units : upos[k] \in {"manager", "construct", "put"} }

\* app.py uploads a unit when the one before it is done; the upload pool of
\* app_fast.py starts the units in submission order, up to 8 at a time.
MayUpload(k) ==
    /\ db_manager # 0
    /\ IF entry = "seq"
       THEN \A j \in 1..(k - 1) : upos[j] = "done"
       ELSE /\ \A j \in 1..(k - 1) : upos[j] # "wait"
            /\ Cardinality(Uploading) < UploadWorkers

\* file_name = generate_filename(product_name_prefix, variant['name'])
upload_name(k) ==
    /\ upos[k] = "wait" /\ MayUpload(k)
    /\ fileName' = [fileName EXCEPT
                      ![k] = generate_filename(ProductNamePrefix, variantNames[k])]
    /\ upos' = [upos EXCEPT ![k] = "manager"]
    /\ UNCHANGED <<hvars, bvars, cvars, designSize, decodedAlpha, tvAlias, heap,
                   upc, ref, rot, opa, outA, written, ivars,
                   now, variantNames, manager, s3_manager, db_manager,
                   constructed, puts>>

\* get_s3_manager: if s3_manager is None
get_s3_manager(k) ==
    /\ upos[k] = "manager"
    /\ IF s3_manager = 0
       THEN /\ upos' = [upos EXCEPT ![k] = "construct"]
            /\ UNCHANGED manager
       ELSE /\ manager' = [manager EXCEPT ![k] = s3_manager]
            /\ upos' = [upos EXCEPT ![k] = "put"]
    /\ UNCHANGED <<hvars, bvars, cvars, designSize, decodedAlpha, tvAlias, heap,
                   upc, ref, rot, opa, outA, written, ivars,
                   now, variantNames, fileName, s3_manager, db_manager,
                   constructed, puts>>

\* get_s3_manager: s3_manager = S3Manager(); return s3_manager
construct_s3_manager(k) ==
    /\ upos[k] = "construct"
    /\ s3_manager' = constructed.s3 + 1
    /\ constructed' = [constructed EXCEPT !.s3 = @ + 1]
    /\ manager' = [manager EXCEPT ![k] = constructed.s3 + 1]
    /\ upos' = [upos EXCEPT ![k] = "put"]
    /\ UNCHANGED <<hvars, bvars, cvars, designSize, decodedAlpha, tvAlias, heap,
                   upc, ref, rot, opa, outA, written, ivars,
                   now, variantNames, fileName, db_manager, puts>>

\* manager.upload_bytes(image_bytes, 'composited-images', filename):
\* put_object under the key made of the folder and the file name.
upload_bytes(k) ==
    /\ upos[k] = "put"
    /\ puts' = Append(puts, <<fileName[k], k>>)
    /\ upos' = [upos EXCEPT ![k] = "done"]
    /\ UNCHANGED <<hvars, bvars, cvars, designSize, decodedAlpha, tvAlias, heap,
                   upc, ref, rot, opa, outA, written, ivars,
                   now, variantNames, fileName, manager, s3_manager, db_manager,
                   constructed>>

\* A fresh process about to import the application and to upload the units
\* of a request.
UploadInit ==
    /\ entry \in {"seq", "fast"}
    /\ maxWorkers = IF entry = "fast" THEN FastHandlerWorkers ELSE 0
    /\ MainIdle
    /\ PixelsIdle
    /\ ItemIdle
    /\ now = 0
    /\ variantNames \in [Units -> VariantNames]
    /\ upos = [k \in Units |-> "wait"]
    /\ fileName = [k \in Units |-> <<>>]
    /\ manager = [k \in Units |-> 0]
    /\ s3_manager = 0
    /\ db_manager = 0
    /\ constructed = [s3 |-> 0, db |-> 0]
    /\ puts = <<>>

UploadNext ==
    \/ get_db_manager
    \/ tick
    \/ \E k \in Units : upload_name(k)
    \/ \E k \in Units : get_s3_manager(k)
    \/ \E k \in Units : construct_s3_manager(k)
    \/ \E k \in Units : upload_bytes(k)

SpecUpload == UploadInit /\ [][UploadNext]_vars

\* ==================================================================== claims
Handlers == {"seq", "fast"}
DirectCalls == {"batch", "gpu"}

\* The entries of results that belong to source s (sourceIndex is 0-based).
EntriesOf(rs, s) == { k \in 1..Len(rs) : rs[k].sourceIndex = s - 1 }

\* Unit (s, v) of a request has nothing wrong with it.
UnitValid(s, v) == fault[v] = "none" /\ DesignLoads(sources[s])

\* Units of a directly called batch that have nothing wrong with them.
ValidBatchUnits ==
    { k \in 1..Min(Len(mockupUrls), Len(designAreas)) :
         fault[mockupUrls[k]] = "none" /\ fault[designAreas[k]] = "none" }

\* C1: per-unit failure isolation.  A batch whose design loads and that has
\* a valid unit returns whatever its other units do, and in a handler's
\* response a unit is reported failed exactly when that unit itself is
\* faulty: a failing unit never turns a valid sibling's entry into a failure.
C1_FailureIsolation ==
    /\ (entry \in DirectCalls /\ pc = "done" /\ DesignLoads(sources[1])
           /\ ValidBatchUnits # {})
          => batch = "returned"
    /\ (entry \in Handlers /\ pc = "done" /\ resp.status = 200)
          => \A k \in 1..Len(resp.data) :
                resp.data[k].success
                   = UnitValid(resp.data[k].sourceIndex + 1, resp.data[k].variantId)

\* C2: a batch call that returns gives one result per input unit: no mockup
\* reference handed in is dropped from the result list, also when the
\* design-area list has another length.
C2_OneResultPerUnit ==
    batch = "returned" => Len(composited) = Len(mockupUrls)

\* C3: results are aligned to the input index whatever the completion
\* order: the k-th fetched mockup is mockup k, the k-th composite is mockup
\* k on design area k, and in a handler the k-th entry of a source is that
\* of the k-th selected variant and carries the upload of that variant's
\* own composite.
C3_ResultsAligned ==
    /\ \A k \in 1..Len(mockups) : mockups[k] = <<mockupUrls[k]>>
    /\ \A k \in 1..Len(composited) : composited[k] = <<mockupUrls[k], designAreas[k]>>
    /\ entry \in Handlers =>
          \A k \in 1..Len(results) :
             LET v == selected[((k - 1) % Len(selected)) + 1]
             IN  /\ results[k].variantId = v
                 /\ results[k].success
                       => results[k].imageUrl = UploadedObject(<<v, v>>, v)

\* Two units of the fast handler finished out of submission order and both
\* were reported.
C3_Witness ==
    /\ entry = "fast" /\ pc = "done" /\ outOfOrder
    /\ Len(sources) = 1 /\ Len(selected) >= 2
    /\ resp.status = 200 /\ resp.successful = Len(selected)

\* C4: once a batch has started, every unit ends completed or failed: none
\* is cancelled or left un-run because of another unit.
C4_AllUnitsTerminal ==
    (batch \in {"returned", "raised"} /\ Len(mockupUrls) = Len(designAreas))
       => \A k \in DOMAIN unit : unit[k] \in {"completed", "failed"}

\* Sources of the request that the handler has finished processing.
Processed(s) == s \in 1..Len(sources) /\ s < srcIdx /\ ~SkipSource(sources[s])

\* Variants of the request whose mockup loads.
LoadableMockups == { k \in 1..Len(selected) : MockupLoads(selected[k]) }

\* C5 as stated: the design is fetched exactly once per batch in every
\* strategy, the sequential handler included (stated for the sources all of
\* whose units reach the design, and for direct batch calls).
C5_DesignFetchedOnce ==
    /\ \A s \in SourceIdx :
          (Processed(s) /\ Cardinality(LoadableMockups) = Len(selected))
             => designFetch[s] = 1
    /\ (entry \in DirectCalls /\ batch # "idle") => designFetch[1] = 1

\* C5 amended: the fast handler and the direct batch calls fetch the design
\* exactly once per batch whatever the number of units; the sequential
\* handler fetches it once per unit whose mockup loaded.
C5_DesignFetchPerStrategy ==
    /\ entry # "seq" =>
          /\ \A s \in SourceIdx : designFetch[s] <= 1
          /\ \A s \in SourceIdx : Processed(s) => designFetch[s] = 1
          /\ pc \in {"pool", "gpu_loop"} => designFetch[srcIdx] = 1
          /\ (entry \in DirectCalls /\ batch # "idle") => designFetch[1] = 1
    /\ entry = "seq" =>
          \A s \in SourceIdx :
             Processed(s) => designFetch[s] = Cardinality(LoadableMockups)

\* A sequential request with two loadable mockups has fetched its design
\* twice.
C5_Witness ==
    /\ pc = "done" /\ resp.status = 200
    /\ Len(selected) = 2 /\ Cardinality(LoadableMockups) = 2
    /\ Processed(1)
    /\ entry = "seq"
    /\ designFetch[1] = 2

WellFormed(e) ==
    \/ /\ e.success
       /\ "imageUrl" \in DOMAIN e
       /\ "error" \notin DOMAIN e
    \/ /\ ~e.success
       /\ "error" \in DOMAIN e
       /\ "imageUrl" \notin DOMAIN e

\* C8: every result entry is either a success with an image URL and no
\* error, or a failure with an error and no image URL.
C8_EntriesWellFormed ==
    /\ \A k \in 1..Len(results) : WellFormed(results[k])
    /\ resp.status = 200 => \A k \in 1..Len(resp.data) : WellFormed(resp.data[k])

\* A response that holds a success and a failure.
C8_Witness ==
    /\ resp.status = 200
    /\ \E i, j \in 1..Len(resp.data) : resp.data[i].success /\ ~resp.data[j].success

\* Selected variants that are faulty.
FaultyUnits == { k \in 1..Len(selected) : fault[selected[k]] # "none" }

\* C9: the counts of a response match its entries, and a batch of N units
\* with exactly one failing unit reports N - 1 successes.
C9_AggregateCounts ==
    (entry \in Handlers /\ resp.status = 200) =>
       /\ resp.total = Len(resp.data)
       /\ resp.successful = Cardinality({ k \in 1..Len(resp.data) : resp.data[k].success })
       /\ \A s \in 1..Len(sources) :
             (~SkipSource(sources[s]) /\ DesignLoads(sources[s])
                 /\ Cardinality(FaultyUnits) = 1)
                => Cardinality({ k \in EntriesOf(resp.data, s) : resp.data[k].success })
                      = Len(selected) - 1

\* Nothing has been looked up, fetched, composited or uploaded.
NothingDone ==
    /\ nLookup = 0
    /\ \A s \in SourceIdx : designFetch[s] = 0
    /\ \A u \in SourceIdx \X VariantIds : mockupFetch[u] = 0
    /\ nComposite = 0
    /\ uploads = <<>>
    /\ results = <<>>
    /\ batch = "idle"

\* C10: a request missing one of templateId, sources, variantIds is answered
\* 400, and on that path nothing has been looked up, fetched, composited or
\* uploaded.
C10_ValidationFailsFast ==
    /\ (entry \in Handlers /\ pc # "idle" /\ RequiredFields \ fields # {})
          => resp.status = 400
    /\ resp.status = 400 => NothingDone

\* A request without variantIds was answered 400.
C10_Witness ==
    /\ resp.status = 400
    /\ fields = {"templateId", "sources"}

\* The overlay alpha a unit must show: the decoded alpha, scaled by the
\* unit's own opacity and by nothing else.
ExpectedAlpha(k) == IF opa[k] < 100 THEN ScaleAlpha(decodedAlpha, opa[k]) ELSE decodedAlpha

\* C6: the decoded design shared by the units of a batch is read-only: its
\* alpha stays what decoding produced, so what a unit blends depends on its
\* own design area only, not on the units that ran before it.
C6_SharedOverlayReadOnly ==
    /\ heap[Overlay] = decodedAlpha
    /\ \A k \in Units : upc[k] = "done" => outA[k] = ExpectedAlpha(k)

\* ----------------------------------------------------------------- C11
PipelineOrder ==
    <<"mockup", "design", "resize", "rotate", "opacity", "paste", "encode">>

IsPrefix(a, b) == Len(a) <= Len(b) /\ \A i \in 1..Len(a) : a[i] = b[i]

\* C11: a single-item composite runs its steps in the order mockup fetch,
\* design fetch, transform and blend, encode; the first step that raises is
\* the last step executed, the call ends there with that error and without
\* bytes, and bytes are returned only after every step has run.
C11_FirstErrorPropagates ==
    /\ IsPrefix(steps, PipelineOrder)
    /\ outcome.kind = "error"
          => /\ ipc = "raised"
             /\ steps # <<>> /\ steps[Len(steps)] = outcome.step
    /\ outcome.kind = "bytes" <=> ipc = "returned"
    /\ ipc = "returned" => steps = PipelineOrder
    /\ ipc = "raised" => outcome.kind = "error"

\* The design fetch failed after the mockup had loaded.
C11_Witness ==
    /\ outcome.kind = "error" /\ outcome.step = "design"
    /\ steps = <<"mockup", "design">>
    /\ mockup # NoImage

\* ----------------------------------------------------------------- C12
\* The mockups of source s that have been requested.
RequestedMockups(s) == { v \in VariantIds : mockupFetch[<<s, v>>] > 0 }

\* C12: no retries.  The mockup of a unit is requested at most once, the
\* design at most once per unit (once per batch where the batch shares it),
\* and a unit one of whose fetches failed ends as a failure: its entry in a
\* handler's results is a failure entry, and a direct batch call does not
\* return.
C12_NoRetries ==
    /\ \A u \in SourceIdx \X VariantIds : mockupFetch[u] <= 1
    /\ \A s \in SourceIdx :
          designFetch[s] <= (IF entry = "seq"
                             THEN Cardinality(RequestedMockups(s)) ELSE 1)
    /\ entry \in Handlers =>
          \A k \in 1..Len(results) :
             (\/ ~MockupLoads(results[k].variantId)
              \/ ~DesignLoads(sources[results[k].sourceIndex + 1]))
                => ~results[k].success
    /\ (entry \in DirectCalls /\ batch = "returned") =>
          /\ DesignLoads(sources[1])
          /\ \A k \in 1..Len(mockupUrls) : MockupLoads(mockupUrls[k])

\* A unit whose mockup could not be fetched: requested once, reported failed.
C12_Witness ==
    /\ entry \in Handlers /\ pc = "done" /\ resp.status = 200
    /\ \E k \in 1..Len(resp.data) :
          /\ ~MockupLoads(resp.data[k].variantId)
          /\ mockupFetch[<<resp.data[k].sourceIndex + 1, resp.data[k].variantId>>] = 1
          /\ ~resp.data[k].success

\* ----------------------------------------------------------------- C13
Abs(n) == IF n >= 0 THEN n ELSE -n

\* C13: aspect fit.  For a design of ow x oh and a design area of positive
\* width w and height h, the overlay as resized is no wider than w and no
\* higher than h, has the width w or the height h, and keeps the aspect
\* ratio up to the rounding of one side by one pixel: |newW * oh - newH * ow|
\* is at most the larger side of the design.
C13_AspectFit ==
    (ipc = "rotate" /\ area.width > 0 /\ area.height > 0) =>
        /\ overlay.size[1] <= area.width
        /\ overlay.size[2] <= area.height
        /\ overlay.size[1] = area.width \/ overlay.size[2] = area.height
        /\ Abs(overlay.size[1] * designSize[2] - overlay.size[2] * designSize[1])
              <= Max(designSize[1], designSize[2])

\* A design of 3 x 2 resized into an area of 2 x 2: the height is rounded.
C13_Witness ==
    /\ ipc = "rotate"
    /\ designSize = <<3, 2>>
    /\ area.width = 2 /\ area.height = 2
    /\ overlay.size = <<2, 1>>

\* ----------------------------------------------------------------- C14
\* Twice the distance, on axis i, between the centre of the overlay as
\* placed and the centre of the design area.
CentreOffset2(i) ==
    LET origin == IF i = 1 THEN area.x ELSE area.y
        side == IF i = 1 THEN area.width ELSE area.height
    IN  Abs((2 * at[i] + overlay.size[i]) - (2 * origin + side))

\* C14: with centerDesign the overlay is placed so that its centre is within
\* half a pixel of the centre of the design area on both axes, in every
\* strategy, also when the transformed overlay is larger than the area.
C14_Centred ==
    (center /\ ipc \in {"encode", "returned"}) =>
        CentreOffset2(1) <= 1 /\ CentreOffset2(2) <= 1

\* ----------------------------------------------------------------- C15
\* C15: a design area whose width or height is not positive makes the
\* geometry step fail with the dedicated GeometryError, not with an
\* arithmetic or library error, and no composite is produced.
C15_GeometryError ==
    (ipc \notin {"idle", "design", "resize"}
        /\ "resize" \in { steps[i] : i \in 1..Len(steps) }
        /\ (area.width <= 0 \/ area.height <= 0)) =>
        /\ outcome.kind = "error"
        /\ outcome.error = "GeometryError"
        /\ out = NoPixels

\* ----------------------------------------------------------------- C16
\* C16: whatever opacity is supplied, below 0 and above 1 included, the
\* alpha of the overlay after the opacity step is a valid alpha, 0..255
\* (0.0..1.0 in the tensor strategy): the factor has been clamped to [0, 1].
C16_OpacityClamped ==
    "opacity" \in { steps[i] : i \in 1..Len(steps) } => overlay.a \in 0..255

\* ----------------------------------------------------------------- C17
\* The pixels of the result that the placed overlay covers.
Covered == Overlap(mockup.size, at, overlay.size)

\* C17: one blend for all strategies.  For an overlay with a valid alpha a,
\* every covered pixel of the result has the colour
\* overlay * a + base * (1 - a), up to one level of rounding, and the alpha
\* max(base alpha, a), in the PIL strategies as in the tensor strategy.
C17_SingleBlend ==
    (ipc \in {"encode", "returned"} /\ overlay.a \in 0..255) =>
        \A p \in Covered :
            /\ Abs(out[p][1] - BlendColour(mockup.px[1], OverlayColour, overlay.a)) <= 1
            /\ out[p][2] = Max(mockup.px[2], overlay.a)

\* ----------------------------------------------------------------- C18
\* The offset the geometry step computes for the overlay.
Offset ==
    <<PastePos(area.x, area.width, overlay.size[1], center),
      PastePos(area.y, area.height, overlay.size[2], center)>>

Pasted == "paste" \in { steps[i] : i \in 1..Len(steps) }

\* C18: frame of the compositor.  Whatever the sizes and the offset,
\* negative or overhanging offsets included, the blend raises nothing, the
\* overlay lies at the computed offset, the result has the size of the
\* base, and every pixel of the base outside the overlay is unchanged.
C18_Frame ==
    Pasted =>
        /\ outcome.step # "paste"
        /\ at = Offset
        /\ DOMAIN out = Pixels(mockup.size)
        /\ \A p \in Pixels(mockup.size) :
              p \notin Overlap(mockup.size, Offset, overlay.size)
                 => out[p] = mockup.px

WithoutOpacity ==
    LET size == RotatedSize(ResizeTarget(designSize[1], designSize[2],
                                         area.width, area.height),
                            area.rotation)
        pos == <<Placed(PastePos(area.x, area.width, size[1], center),
                        mockup.size[1], size[1]),
                 Placed(PastePos(area.y, area.height, size[2], center),
                        mockup.size[2], size[2])>>
    IN  Blended(mockup, size, decodedAlpha, pos, FALSE)

\* C20: an opacity of 1.0 or more is a no-op: the alpha of the overlay is
\* the decoded one and the result is pixel for pixel the result of the same
\* call without opacity.
C20_OpaqueIsNoOp ==
    (Pasted /\ outcome.step # "paste"
        /\ "opacity" \in DOMAIN area /\ area.opacity >= 100) =>
        /\ overlay.a = decodedAlpha
        /\ out = WithoutOpacity

\* A call with opacity 1.5 that returned a result covering part of the base.
C20_Witness ==
    /\ ipc = "returned"
    /\ "opacity" \in DOMAIN area /\ area.opacity = 150
    /\ Covered # {}

\* ----------------------------------------------------------------- C21
\* C21: a rotation of 0 is a no-op: once the rotate step is behind, the
\* overlay has the size the resize step gave it and the alpha of the resized
\* (and, after the opacity step, opacity-adjusted) design: the canvas is not
\* enlarged and nothing is resampled.
StepDone(name) == \E i \in DOMAIN steps : steps[i] = name

C21_RotationZeroIsNoOp ==
    (StepDone("rotate") /\ area.rotation = 0) =>
        /\ overlay.size = ResizeTarget(designSize[1], designSize[2],
                                       area.width, area.height)
        /\ overlay.a = IF StepDone("opacity") /\ OpacityApplies(OpacityOf(area))
                       THEN ScaledAlpha(decodedAlpha, OpacityOf(area))
                       ELSE decodedAlpha

C21_Witness ==
    /\ StepDone("rotate") /\ area.rotation = 0
    /\ overlay.size[1] # overlay.size[2]
    /\ outcome = Bytes

\* ----------------------------------------------------------------- C22
\* C22: the maintainAspect option of the request decides the resize target:
\* when the caller disables it the overlay is stretched to exactly (w, h) of
\* the design area; when it is true or left out the overlay is fitted into
\* the area with its aspect ratio kept.
C22_OptionDecidesTarget ==
    (ipc = "rotate" /\ area.width >= 1 /\ area.height >= 1) =>
        overlay.size = IF maintainAspect = "false"
                       THEN <<area.width, area.height>>
                       ELSE ResizeTarget(designSize[1], designSize[2],
                                         area.width, area.height)

\* ----------------------------------------------------------------- C23
\* C23: the size the resize step gives the overlay is the rounded scaled
\* size of the design: newW = round(ow * scale), newH = round(oh * scale)
\* with scale = min(w / ow, h / oh), for every design and design area.
\* round(n / d) is taken with halves going up or to the even neighbour.
RoundHalfUp(n, d) == (2 * n + d) \div (2 * d)

RoundHalfEven(n, d) ==
    LET q == n \div d
        r == n % d
    IN  IF 2 * r < d THEN q
        ELSE IF 2 * r > d THEN q + 1
        ELSE IF q % 2 = 0 THEN q ELSE q + 1

Rounded(n, d) == {RoundHalfUp(n, d), RoundHalfEven(n, d)}

C23_RoundedTarget ==
    (ipc = "rotate" /\ area.width >= 1 /\ area.height >= 1) =>
        LET ow == designSize[1]
            oh == designSize[2]
            w == area.width
            h == area.height
        IN  IF w * oh <= h * ow
            THEN /\ overlay.size[1] \in Rounded(ow * w, ow)
                 /\ overlay.size[2] \in Rounded(oh * w, ow)
            ELSE /\ overlay.size[1] \in Rounded(ow * h, oh)
                 /\ overlay.size[2] \in Rounded(oh * h, oh)

\* ----------------------------------------------------------------- C24
\* C24: every raster a pipeline stage produces has a positive width and a
\* positive height: for a design of at least 1 x 1 and a design area of at
\* least 1 x 1 the resize step succeeds and its target has both sides >= 1.
C24_PositiveTarget ==
    (StepDone("resize") /\ area.width >= 1 /\ area.height >= 1) =>
        /\ outcome.kind # "error"
        /\ overlay.size[1] >= 1
        /\ overlay.size[2] >= 1
        /\ ResizeTarget(designSize[1], designSize[2], area.width, area.height)[1] >= 1
        /\ ResizeTarget(designSize[1], designSize[2], area.width, area.height)[2] >= 1

\* ----------------------------------------------------------------- C25
\* C25: the transform steps (resize, rotate, apply opacity) are pure: none
\* of them alters the raster it is given, so the raster a step returns is
\* never a buffer that was an input and has been written to.  The only
\* buffer a unit writes is the copy of the mockup its blend makes.
C25_StepsArePure ==
    \A k \in Units :
        /\ written[k] \subseteq {ResultBuffer(k)}
        /\ ref[k] \notin written[k]

\* ----------------------------------------------------------------- C26
\* C26: in the fast handler a reported failure means nothing was stored:
\* when the response is out, every object put to storage is the imageUrl of
\* exactly one success entry (the uploads and the success entries match one
\* to one), so a source whose variants are all reported failed has left no
\* composited image behind, whatever the order in which the parallel
\* uploads ended.
SuccessUrls(rs) == { rs[k].imageUrl : k \in { j \in DOMAIN rs : rs[j].success } }

C26_FailureLeavesNothing ==
    (entry = "fast" /\ pc = "done" /\ resp.status = 200) =>
        /\ \A i \in DOMAIN uploads : uploads[i] \in SuccessUrls(resp.data)
        /\ \A o \in SuccessUrls(resp.data) :
              Cardinality({ i \in DOMAIN uploads : uploads[i] = o })
                = Cardinality({ k \in DOMAIN resp.data :
                                  resp.data[k].success /\ resp.data[k].imageUrl = o })

\* ----------------------------------------------------------------- C27
\* C27: the object keys of a request are unique: two distinct units, also
\* when their variant names clean to the same string and when they are
\* named in parallel or within the same millisecond, never get the same file
\* name, so no put_object overwrites the object of another unit.
C27_UniqueKeys ==
    /\ \A j \in Units, k \in Units :
          (j # k /\ upos[j] # "wait" /\ upos[k] # "wait") => fileName[j] # fileName[k]
    /\ \A i \in DOMAIN puts, j \in DOMAIN puts : i # j => puts[i][1] # puts[j][1]

\* ----------------------------------------------------------------- C28
\* C28: the lazily built singletons are built at most once per process: the
\* S3 manager, whatever the interleaving of the upload threads that call
\* get_s3_manager, and the database manager.
C28_SingletonsBuiltOnce ==
    /\ constructed.s3 <= 1
    /\ constructed.db <= 1
    /\ \A j \in Units, k \in Units :
          (manager[j] # 0 /\ manager[k] # 0) => manager[j] = manager[k]

\* ----------------------------------------------------------------- C29
\* C29: the 200 response of /api/composite has exactly S * V entries, S the
\* sources of type 'url' with a non-empty imageUrl and V the variants of the
\* template whose id the request lists (each once, ids the template does
\* not have ignored), ordered by source index and, within a source, by the
\* template's variant order; the other sources contribute no entry.  When
\* the template is found and V is 0 the answer is 404 and no unit has run.
UrlSources ==
    { s \in 1..Len(sources) :
         sources[s].type = "url" /\ sources[s].imageUrl # "empty" }

ListedVariants == variantIds \cap VariantIds

\* The n-th smallest member of a set of numbers.
Nth(S, n) == CHOOSE x \in S : Cardinality({ y \in S : y < x }) = n - 1

C29_EntriesPerSourceAndVariant ==
    (entry \in Handlers /\ pc = "done") =>
        LET V == Cardinality(ListedVariants)
        IN  /\ resp.status = 200 =>
                 /\ Len(resp.data) = Cardinality(UrlSources) * V
                 /\ resp.total = Cardinality(UrlSources) * V
                 /\ \A k \in 1..Len(resp.data) :
                       /\ resp.data[k].sourceIndex
                             = Nth(UrlSources, ((k - 1) \div V) + 1) - 1
                       /\ resp.data[k].variantId
                             = Nth(ListedVariants, ((k - 1) % V) + 1)
            /\ (nLookup = 1 /\ V = 0) =>
                 /\ resp.status = 404
                 /\ results = <<>> /\ uploads = <<>> /\ nComposite = 0
                 /\ \A s \in SourceIdx : designFetch[s] = 0
                 /\ \A u \in SourceIdx \X VariantIds : mockupFetch[u] = 0

\* A response for two sources of which one is passed over, to a request
\* that lists a variant of the template and an id the template has not.
C29_Witness ==
    /\ entry \in Handlers /\ pc = "done" /\ resp.status = 200
    /\ Len(sources) = 2 /\ Cardinality(UrlSources) = 1
    /\ UnknownId \in variantIds
    /\ Len(resp.data) = 1

\* ----------------------------------------------------------------- C30
\* C30: the handlers of app.py and app_fast.py answer a request alike: the
\* same (variantId, sourceIndex, success) triples in the same order and the
\* same total and successful, when every unit succeeds and when the mockup
\* of exactly one unit cannot be fetched.  What app.py answers is a function
\* of the request (each unit is reported on its own), so both handlers must
\* give that answer.
Triples(rs) ==
    [k \in DOMAIN rs |-> <<rs[k].variantId, rs[k].sourceIndex, rs[k].success>>]

FetchFailures == { u \in UrlSources \X ListedVariants : fault[u[2]] = "fetch" }

SequentialTriples ==
    LET V == Cardinality(ListedVariants)
    IN  [k \in 1..(Cardinality(UrlSources) * V) |->
           LET s == Nth(UrlSources, ((k - 1) \div V) + 1)
               v == Nth(ListedVariants, ((k - 1) % V) + 1)
           IN  <<v, s - 1, UnitValid(s, v)>>]

C30_HandlersAgree ==
    (/\ entry \in Handlers /\ pc = "done" /\ resp.status = 200
     /\ \A s \in UrlSources : DesignLoads(sources[s])
     /\ \A v \in ListedVariants : fault[v] \in {"none", "fetch"}
     /\ Cardinality(FetchFailures) <= 1) =>
        /\ Triples(resp.data) = SequentialTriples
        /\ resp.total = Len(SequentialTriples)
        /\ resp.successful = Len(SequentialTriples) - Cardinality(FetchFailures)

====
